---------------------------- MODULE Spec2Model ----------------------------
(***************************************************************************)
(* Console calculator (src/cpp/main.cpp): the command loop of main, the    *)
(* recursive expression compiler parseToken and the evaluation of the      *)
(* token tree.                                                             *)
(*                                                                         *)
(* A std::string is a sequence of one-character strings.  C++ indexes      *)
(* from 0, the sequences here from 1: the character expression[i] of the   *)
(* source is expression[i + 1] here.                                       *)
(*                                                                         *)
(* A double is an exact signed rational [neg, n, d] (magnitude n/d in      *)
(* lowest terms), with the IEEE specials: n = 1, d = 0 is an infinity,     *)
(* n = 0, d = 0 is NaN, and n = 0, d = 1 is a zero that keeps its sign.    *)
(* The inputs are chosen so that every value stays an integer or a short   *)
(* decimal fraction, where binary and exact arithmetic agree to the six    *)
(* decimals std::to_string prints.                                         *)
(***************************************************************************)
EXTENDS Integers, Sequences, FiniteSets, TLC

(***************************************************************************)
(* Bounds of the model.                                                    *)
(***************************************************************************)
MaxLen == 4
MaxNest == 2

(***************************************************************************)
(* double arithmetic                                                       *)
(***************************************************************************)
Abs(k) == IF k < 0 THEN -k ELSE k

RECURSIVE GCD(_, _)
GCD(a, b) == IF b = 0 THEN a ELSE GCD(b, a % b)

NaN == [neg |-> FALSE, n |-> 0, d |-> 0]

Mk(neg, n, d) ==
    IF d = 0
    THEN IF n = 0 THEN NaN ELSE [neg |-> neg, n |-> 1, d |-> 0]
    ELSE IF n = 0
         THEN [neg |-> neg, n |-> 0, d |-> 1]
         ELSE LET g == GCD(n, d) IN [neg |-> neg, n |-> n \div g, d |-> d \div g]

Num(k) == Mk(k < 0, Abs(k), 1)

IsNaN(x) == x.n = 0 /\ x.d = 0
IsInf(x) == x.n = 1 /\ x.d = 0
IsInteger(x) == x.d = 1
Signed(x) == IF x.neg THEN -x.n ELSE x.n

Negate(x) == IF IsNaN(x) THEN NaN ELSE [x EXCEPT !.neg = ~x.neg]

Add(x, y) ==
    IF IsNaN(x) \/ IsNaN(y) THEN NaN
    ELSE IF IsInf(x) /\ IsInf(y) THEN (IF x.neg = y.neg THEN x ELSE NaN)
    ELSE IF IsInf(x) THEN x
    ELSE IF IsInf(y) THEN y
    ELSE LET s == Signed(x) * y.d + Signed(y) * x.d
         IN  IF s = 0
             THEN [neg |-> x.neg /\ y.neg, n |-> 0, d |-> 1]
             ELSE Mk(s < 0, Abs(s), x.d * y.d)

Sub(x, y) == Add(x, Negate(y))

Mul(x, y) ==
    IF IsNaN(x) \/ IsNaN(y) THEN NaN
    ELSE Mk(x.neg # y.neg, x.n * y.n, x.d * y.d)

Div(x, y) ==
    IF IsNaN(x) \/ IsNaN(y) THEN NaN
    ELSE Mk(x.neg # y.neg, x.n * y.d, x.d * y.n)

RECURSIVE IntPow(_, _)
IntPow(x, k) == IF k = 0 THEN Num(1) ELSE Mul(IntPow(x, k - 1), x)

\* std::pow.  An integral exponent is repeated multiplication.  Of the other
\* exponents only the cases with an exact IEEE answer are given; a positive
\* base with a fractional exponent is irrational and no input of the model
\* produces one.
Pow(x, y) ==
    IF y.n = 0 /\ y.d = 1 THEN Num(1)
    ELSE IF x = Num(1) THEN Num(1)
    ELSE IF IsNaN(x) \/ IsNaN(y) THEN NaN
    ELSE IF IsInteger(y)
         THEN IF y.neg THEN Div(Num(1), IntPow(x, y.n)) ELSE IntPow(x, y.n)
    ELSE IF IsInf(y)
         THEN IF (x.n < x.d) = y.neg THEN Mk(FALSE, 1, 0) ELSE Num(0)
    ELSE IF x.n = 0 /\ x.d = 1
         THEN IF y.neg THEN Mk(FALSE, 1, 0) ELSE Num(0)
    ELSE NaN

(***************************************************************************)
(* Decimal text of a double: std::to_string and std::stod                  *)
(***************************************************************************)
DigitChar == <<"0", "1", "2", "3", "4", "5", "6", "7", "8", "9">>

IsDigit(c) == \E k \in 1..10 : DigitChar[k] = c
DigitVal(c) == (CHOOSE k \in 1..10 : DigitChar[k] = c) - 1

RECURSIVE Pow10(_)
Pow10(k) == IF k = 0 THEN 1 ELSE 10 * Pow10(k - 1)

RECURSIVE Decimal(_)
Decimal(k) ==
    IF k < 10 THEN <<DigitChar[k + 1]>>
    ELSE Decimal(k \div 10) \o <<DigitChar[(k % 10) + 1]>>

RECURSIVE Padded(_, _)
Padded(k, width) ==
    IF width = 0 THEN <<>>
    ELSE Padded(k \div 10, width - 1) \o <<DigitChar[(k % 10) + 1]>>

\* The first `places` decimals of r/d (r < d) as an integer, by long
\* division, with the remainder that is left.
RECURSIVE Fraction(_, _, _)
Fraction(r, d, places) ==
    IF places = 0 THEN [digits |-> 0, rest |-> r]
    ELSE LET f == Fraction(r, d, places - 1)
         IN  [digits |-> f.digits * 10 + ((f.rest * 10) \div d),
              rest   |-> (f.rest * 10) % d]

\* std::to_string(double) prints as printf("%f"): six decimals, rounded to
\* nearest, ties to even.
to_string(x) ==
    LET sign == IF x.neg THEN <<"-">> ELSE <<>>
    IN  IF IsNaN(x) THEN <<"n", "a", "n">>
        ELSE IF IsInf(x) THEN sign \o <<"i", "n", "f">>
        ELSE LET q  == x.n \div x.d
                 f  == Fraction(x.n % x.d, x.d, 6)
                 up == 2 * f.rest > x.d
                       \/ (2 * f.rest = x.d /\ f.digits % 2 = 1)
                 m  == IF up THEN f.digits + 1 ELSE f.digits
                 ip == IF m = 1000000 THEN q + 1 ELSE q
                 fp == IF m = 1000000 THEN 0 ELSE m
             IN  sign \o Decimal(ip) \o <<".">> \o Padded(fp, 6)

RECURSIVE RunLen(_, _)
RunLen(s, pos) ==
    IF pos <= Len(s) /\ IsDigit(s[pos]) THEN 1 + RunLen(s, pos + 1) ELSE 0

RECURSIVE IntOf(_, _, _)
IntOf(s, pos, count) ==
    IF count = 0 THEN 0
    ELSE IntOf(s, pos, count - 1) * 10 + DigitVal(s[pos + count - 1])

HasAt(s, pos, word) ==
    /\ pos + Len(word) - 1 <= Len(s)
    /\ \A k \in 1..Len(word) : s[pos + k - 1] = word[k]

\* std::stod converts the longest prefix that is a number (strtod) and
\* ignores whatever follows it: optional sign, then "inf", "nan" or decimal
\* digits with an optional point and an optional exponent.  It throws
\* std::invalid_argument when no prefix is a number.
stod(str) ==
    LET signed == Len(str) >= 1 /\ str[1] \in {"-", "+"}
        neg    == signed /\ str[1] = "-"
        p0     == IF signed THEN 2 ELSE 1
        ni     == RunLen(str, p0)
        dot    == p0 + ni <= Len(str) /\ str[p0 + ni] = "."
        nf     == IF dot THEN RunLen(str, p0 + ni + 1) ELSE 0
        pe     == p0 + ni + (IF dot THEN 1 + nf ELSE 0)
        isE    == pe <= Len(str) /\ str[pe] \in {"e", "E"}
        esign  == isE /\ pe + 1 <= Len(str) /\ str[pe + 1] \in {"-", "+"}
        pd     == pe + 1 + (IF esign THEN 1 ELSE 0)
        ne     == IF isE THEN RunLen(str, pd) ELSE 0
        mant   == Add(Num(IntOf(str, p0, ni)),
                      Mk(FALSE, IntOf(str, p0 + ni + 1, nf), Pow10(nf)))
        scale  == Num(Pow10(IntOf(str, pd, ne)))
        mag    == IF ne = 0 THEN mant
                  ELSE IF str[pe + 1] = "-" THEN Div(mant, scale)
                  ELSE Mul(mant, scale)
    IN  IF HasAt(str, p0, <<"i", "n", "f">>)
        THEN [thrown |-> FALSE, value |-> Mk(neg, 1, 0)]
        ELSE IF HasAt(str, p0, <<"n", "a", "n">>)
        THEN [thrown |-> FALSE, value |-> NaN]
        ELSE IF ni + nf = 0
        THEN [thrown |-> TRUE, value |-> NaN]
        ELSE [thrown |-> FALSE, value |-> [mag EXCEPT !.neg = neg]]

(***************************************************************************)
(* Operations: Operation, getOperationFromChar, getPriority                *)
(***************************************************************************)
Operation == {"NONE", "SUM", "MIN", "MUL", "DIV", "POW"}

getOperationFromChar(c) ==
    CASE c = "+" -> "SUM"
      [] c = "-" -> "MIN"
      [] c = "*" -> "MUL"
      [] c = "/" -> "DIV"
      [] c = "^" -> "POW"
      [] OTHER   -> "NONE"

MIN_PRIORITY == 1
MAX_PRIORITY == 3

\* getPriority with the cases of the two lower levels exchanged
getPrioritySwapped(operation) ==
    CASE operation \in {"MUL", "DIV"} -> 1
      [] operation \in {"SUM", "MIN"} -> 2
      [] operation = "POW"            -> 3
      [] OTHER                        -> 0

getPriority(operation) ==
    CASE operation \in {"SUM", "MIN"} -> 1
      [] operation \in {"MUL", "DIV"} -> 2
      [] operation = "POW"            -> 3
      [] OTHER                        -> 0

(***************************************************************************)
(* Tokens: NumberToken, OperationToken and resolve                         *)
(***************************************************************************)
Null == [kind |-> "null"]

NumberToken(value) == [kind |-> "NumberToken", value |-> value]

\* the constructor leaving the operation member at its zero value
OperationTokenNoKind(operation, a, b) ==
    [kind |-> "OperationToken", operation |-> "NONE", a |-> a, b |-> b]

OperationToken(operation, a, b) ==
    [kind |-> "OperationToken", operation |-> operation, a |-> a, b |-> b]

\* The switch of OperationToken::resolve on two resolved operands.
Apply(operation, aValue, bValue) ==
    CASE operation = "SUM" -> Add(aValue, bValue)
      [] operation = "MIN" -> Sub(aValue, bValue)
      [] operation = "MUL" -> Mul(aValue, bValue)
      [] operation = "DIV" -> Div(aValue, bValue)
      [] operation = "POW" -> Pow(aValue, bValue)
      [] OTHER             -> Num(0)

RECURSIVE resolve(_)
resolve(token) ==
    IF token.kind = "NumberToken" THEN token.value
    ELSE Apply(token.operation, resolve(token.a), resolve(token.b))

(***************************************************************************)
(* Parser: parseNumber and the pieces of parseToken                        *)
(***************************************************************************)
\* PI and E to the six decimals std::to_string keeps.
PI == Mk(FALSE, 3141593, 1000000)
E == Mk(FALSE, 2718282, 1000000)

parseNumber(token) ==
    IF token = <<"p", "i">> THEN [thrown |-> FALSE, value |-> PI]
    ELSE IF token = <<"e">> THEN [thrown |-> FALSE, value |-> E]
    ELSE stod(token)

\* expression.substr(pos, count) and expression.substr(pos), pos from 0.
substr(expression, pos, count) == SubSeq(expression, pos + 1, pos + count)
substrFrom(expression, pos) == SubSeq(expression, pos + 1, Len(expression))

Count(expression, from, to, c) ==
    Cardinality({k \in from..to : expression[k] = c})

\* The inner loop of the parenthesis scan for the '(' at index i (from 0):
\* the indices j > i at which open == close.
Closes(expression, i) ==
    {j \in (i + 1)..(Len(expression) - 1) :
        1 + Count(expression, i + 2, j + 1, "(")
          = Count(expression, i + 2, j + 1, ")")}

\* The outer loop: the indices i of a '(' whose inner loop finds a j.
Opens(expression) ==
    {i \in 0..(Len(expression) - 1) :
        expression[i + 1] = "(" /\ Closes(expression, i) # {}}

Min(S) == CHOOSE m \in S : \A k \in S : m <= k

\* the substitution off by one at both ends: the parentheses stay
newExpressionKeepsParens(expression, i, j, value) ==
    substr(expression, 0, i + 1) \o to_string(value) \o substrFrom(expression, j)

\* The string the parser recurses on after a group is folded.
newExpression(expression, i, j, value) ==
    substr(expression, 0, i) \o to_string(value) \o substrFrom(expression, j + 1)

\* the sign test comparing with the wrong operation
IsSignOfSum(left, operation) == left = <<>> /\ operation = "SUM"

\* the sign test also taking a '-' that follows an operator
IsSignAfterOperator(left, operation) ==
    /\ operation = "MIN"
    /\ \/ left = <<>>
       \/ getOperationFromChar(left[Len(left)]) # "NONE"

\* A '-' with nothing to its left is the sign of a negative number.
IsSign(left, operation) == left = <<>> /\ operation = "MIN"

\* The body of the two operator loops: does the parser split at index i
\* (from 0) in the pass for `priority`?
SplitsAt(expression, i, priority) ==
    LET operation == getOperationFromChar(expression[i + 1])
    IN  /\ operation # "NONE"
        /\ getPriority(operation) = priority
        /\ ~IsSign(substr(expression, 0, i), operation)

Splits(expression) ==
    {s \in (MIN_PRIORITY..MAX_PRIORITY) \X (0..(Len(expression) - 1)) :
        SplitsAt(expression, s[2], s[1])}

\* The first split the loops reach: lowest priority, then leftmost.
FirstSplit(expression) ==
    CHOOSE s \in Splits(expression) :
        \A t \in Splits(expression) :
            s[1] < t[1] \/ (s[1] = t[1] /\ s[2] <= t[2])

\* compileExpression erases the spaces.
RemoveSpaces(expression) == SelectSeq(expression, LAMBDA c : c # " ")

(***************************************************************************)
(* The lines typed on standard input                                       *)
(***************************************************************************)
ActionLines == {<<"h">>, <<"q">>, <<"o">>, <<"x">>, <<>>}

Alphabet == {"2", "+", "-", "*", "/", "(", ")"}

RECURSIVE Strings(_)
Strings(n) ==
    IF n = 0 THEN {<<>>}
    ELSE LET S == Strings(n - 1)
         IN  S \cup {Append(s, c) : s \in {t \in S : Len(t) = n - 1}, c \in Alphabet}

OpChars == {"+", "-", "*", "/", "^"}

\* literal op literal op literal
Chain(a, o1, b, o2, c) == a \o <<o1>> \o b \o <<o2>> \o c

Chains ==
    {Chain(<<a>>, o1, <<b>>, o2, <<"2">>) :
        a \in {"8", "3", "2"}, b \in {"3", "2"}, o1 \in OpChars, o2 \in OpChars}

\* a literal with a leading minus, alone or on either side of an operator
SignLits == {"5", "3", "2"}

Signed1(a) == <<"-", a>>
SignedLeft(a, op, b) == <<"-", a, op, b>>
SignedRight(a, op, b) == <<a, op, "-", b>>

Signs ==
    {Signed1(a) : a \in SignLits}
    \cup {SignedLeft(a, op, b) : a \in SignLits, op \in OpChars, b \in SignLits}
    \cup {SignedRight(a, op, b) : a \in SignLits, op \in OpChars, b \in SignLits}

\* a parenthesized group with an integer value, nested k deep, alone, after
\* a minus, and on either side of an operator
GroupLits == {"1", "2", "3"}
GroupOps == {"+", "-", "*"}

RECURSIVE Wrap(_, _)
Wrap(body, k) == IF k = 0 THEN body ELSE <<"(">> \o Wrap(body, k - 1) \o <<")">>

GroupRight(a, op, b, o2, c, k) == <<a, op>> \o Wrap(<<b, o2, c>>, k)
GroupLeft(b, o2, c, k, op, a) == Wrap(<<b, o2, c>>, k) \o <<op, a>>

Groups ==
    {GroupRight(a, op, b, o2, c, k) :
        a \in GroupLits, op \in OpChars, b \in GroupLits, o2 \in GroupOps,
        c \in GroupLits, k \in 1..MaxNest}
    \cup {GroupLeft(b, o2, c, k, op, a) :
        a \in GroupLits, op \in OpChars, b \in GroupLits, o2 \in GroupOps,
        c \in GroupLits, k \in 1..MaxNest}
    \cup {Wrap(<<b, o2, c>>, k) :
        b \in GroupLits, o2 \in GroupOps, c \in GroupLits, k \in 1..MaxNest}
    \cup {<<"-">> \o Wrap(<<b, o2, c>>, 1) :
        b \in GroupLits, o2 \in GroupOps, c \in GroupLits}

\* a group whose value is a fraction
Quotients ==
    {Wrap(<<a, "/", b>>, k) : a \in GroupLits, b \in GroupLits, k \in 1..MaxNest}
    \cup {Wrap(<<a, "/", b>>, 1) \o <<op, c>> :
        a \in GroupLits, b \in GroupLits, op \in {"+", "-", "*", "/"},
        c \in GroupLits}

\* single operands, well formed or not
Words ==
    {<<"p", "i">>, <<"e">>, <<"2", "e">>, <<"2", "a">>, <<"a">>,
     <<"2", "e", "2">>, <<"2", ".", "5">>, <<"2", ".">>, <<".">>,
     <<".", "5">>, <<"i", "n", "f">>, <<"n", "a", "n">>, <<"a", "b", "c">>,
     <<"P", "I">>, <<"2", "a", "b", "c">>}

Operands ==
    Words \cup {<<"-">> \o w : w \in Words}
          \cup {<<"2", "+">> \o w : w \in Words}
          \cup {w \o <<"*", "2">> : w \in Words}

Examples ==
    {<<"2", "+", "3", "*", "4">>, <<"(", "2", "+", "3", ")", "*", "4">>,
     <<"8", "-", "3", "-", "2">>, <<"2", "^", "3", "^", "2">>,
     <<"(", "(", "1", "+", "2", ")", ")", "*", "3">>,
     <<"2", "-", "(", "1", "-", "3", ")">>,
     <<"2", "*", "(", "1", "-", "3", ")">>, <<"-", "5", "+", "3">>,
     <<"-", "5", "-", "3">>, <<"3", "*", "-", "2">>,
     <<"8", " ", "-", " ", "3", " ", "-", " ", "2">>,
     <<" ", "2", " ", "+", " ", "3", " ">>, <<"e", "*", "2">>,
     <<"(", "1", "+", "2">>, <<"(", "(", "1", "+", "2", ")">>,
     <<"1", "+", "2", ")">>, <<"(", "1", "+", "2", ")", ")">>, <<"2", "+">>,
     <<"+", "2">>, <<>>, <<"(", "2", ")", "(", "3", ")">>,
     <<"2", "(", "3", ")">>, <<"(", ")">>}

Inputs ==
    Strings(MaxLen) \cup Chains \cup Signs \cup Groups \cup Quotients
                    \cup Operands \cup Examples

(***************************************************************************)
(* State                                                                   *)
(***************************************************************************)
VARIABLES
    pc,              \* where main is
    action,          \* main: the command line read last
    expression_str,  \* main: the expression line read last
    expression,      \* main: the compiled token tree, Null before
    result,          \* main: the value of the tree, Null before
    out,             \* what was printed last on std::cout
    stack,           \* the parseToken calls in progress, innermost last
    ret              \* what the parseToken call that ended last handed back

vars == <<pc, action, expression_str, expression, result, out, stack, ret>>

\* One call of parseToken: its argument, where it waits, and its locals.
Frame(e) ==
    [expression |-> e, at |-> "enter", i |-> 0, j |-> 0,
     operation |-> "NONE", a |-> Null]

Top == stack[Len(stack)]
Caller == SubSeq(stack, 1, Len(stack) - 1)

None == [kind |-> "none"]
Returned(token) == [kind |-> "token", token |-> token]
Thrown == [kind |-> "throw"]

Init ==
    /\ pc = "getline_action"
    /\ action = <<>>
    /\ expression_str = <<>>
    /\ expression = Null
    /\ result = Null
    /\ out = "welcome"
    /\ stack = <<>>
    /\ ret = None

(***************************************************************************)
(* parseToken, one step per call and per return                            *)
(***************************************************************************)
Entering ==
    /\ pc = "compileExpression"
    /\ stack # <<>>
    /\ ret = None
    /\ Top.at = "enter"

Resumed(at) ==
    /\ pc = "compileExpression"
    /\ stack # <<>>
    /\ ret.kind = "token"
    /\ Top.at = at

\* A group is found: parseToken(subExpression).
ParseGroup ==
    /\ Entering
    /\ Opens(Top.expression) # {}
    /\ LET e == Top.expression
           i == Min(Opens(e))
           j == Min(Closes(e, i))
       IN  stack' = Append(Caller \o <<[Top EXCEPT !.at = "subExpression",
                                                   !.i = i, !.j = j]>>,
                           Frame(substr(e, i + 1, j - i - 1)))
    /\ UNCHANGED <<pc, action, expression_str, expression, result, out, ret>>

\* The group is compiled: it is resolved, its text replaces it, and
\* parseToken(newExpression).
FoldGroup ==
    /\ Resumed("subExpression")
    /\ stack' = Append(Caller \o <<[Top EXCEPT !.at = "newExpression"]>>,
                       Frame(newExpression(Top.expression, Top.i, Top.j,
                                           resolve(ret.token))))
    /\ ret' = None
    /\ UNCHANGED <<pc, action, expression_str, expression, result, out>>

\* return parseToken(newExpression);
ReturnFolded ==
    /\ Resumed("newExpression")
    /\ stack' = Caller
    /\ UNCHANGED <<pc, action, expression_str, expression, result, out, ret>>

\* No group, an operator to split at: parseToken(left).
ParseLeft ==
    /\ Entering
    /\ Opens(Top.expression) = {}
    /\ Splits(Top.expression) # {}
    /\ LET e == Top.expression
           i == FirstSplit(e)[2]
       IN  stack' = Append(Caller \o <<[Top EXCEPT
                                          !.at = "left", !.i = i,
                                          !.operation = getOperationFromChar(e[i + 1])]>>,
                           Frame(substr(e, 0, i)))
    /\ UNCHANGED <<pc, action, expression_str, expression, result, out, ret>>

\* The left side is compiled: parseToken(right).
ParseRight ==
    /\ Resumed("left")
    /\ stack' = Append(Caller \o <<[Top EXCEPT !.at = "right", !.a = ret.token]>>,
                       Frame(substrFrom(Top.expression, Top.i + 1)))
    /\ ret' = None
    /\ UNCHANGED <<pc, action, expression_str, expression, result, out>>

\* Both sides are compiled: the operator node is returned.
ReturnOperation ==
    /\ Resumed("right")
    /\ ret' = Returned(OperationToken(Top.operation, Top.a, ret.token))
    /\ stack' = Caller
    /\ UNCHANGED <<pc, action, expression_str, expression, result, out>>

\* Neither a group nor a split: the string is a number, or parseNumber throws.
ReturnNumber ==
    /\ Entering
    /\ Opens(Top.expression) = {}
    /\ Splits(Top.expression) = {}
    /\ LET number == parseNumber(Top.expression)
       IN  ret' = IF number.thrown THEN Thrown
                  ELSE Returned(NumberToken(number.value))
    /\ stack' = Caller
    /\ UNCHANGED <<pc, action, expression_str, expression, result, out>>

\* No call of parseToken catches: the exception leaves the call.
Unwind ==
    /\ pc = "compileExpression"
    /\ stack # <<>>
    /\ ret = Thrown
    /\ stack' = Caller
    /\ UNCHANGED <<pc, action, expression_str, expression, result, out, ret>>

(***************************************************************************)
(* main                                                                    *)
(***************************************************************************)
ReadAction(line) ==
    /\ pc = "getline_action"
    /\ action' = line
    /\ UNCHANGED <<stack, ret>>

Help ==
    /\ ReadAction(<<"h">>)
    /\ out' = "help"
    /\ UNCHANGED <<pc, expression_str, expression, result>>

Quit ==
    /\ ReadAction(<<"q">>)
    /\ pc' = "exit"
    /\ UNCHANGED <<expression_str, expression, result, out>>

\* action == "o": the prompt is printed and the locals of the branch are new.
Operate ==
    /\ ReadAction(<<"o">>)
    /\ out' = "prompt"
    /\ pc' = "getline_expression"
    /\ expression_str' = <<>>
    /\ expression' = Null
    /\ result' = Null

Unrecognized ==
    /\ \E line \in ActionLines \ {<<"h">>, <<"q">>, <<"o">>} : ReadAction(line)
    /\ out' = "unrecognized"
    /\ UNCHANGED <<pc, expression_str, expression, result>>

\* The expression line is read and compileExpression calls parseToken.
Compile ==
    /\ pc = "getline_expression"
    /\ \E line \in Inputs :
        /\ expression_str' = line
        /\ stack' = <<Frame(RemoveSpaces(line))>>
    /\ pc' = "compileExpression"
    /\ UNCHANGED <<action, expression, result, out, ret>>

\* compileExpression returned: the tree is resolved and the line printed.
PrintResult ==
    /\ pc = "compileExpression"
    /\ stack = <<>>
    /\ ret.kind = "token"
    /\ expression' = ret.token
    /\ result' = resolve(ret.token)
    /\ out' = "result"
    /\ pc' = "getline_action"
    /\ ret' = None
    /\ UNCHANGED <<action, expression_str, stack>>

\* The exception reaches main, which has no handler: std::terminate.
Terminate ==
    /\ pc = "compileExpression"
    /\ stack = <<>>
    /\ ret = Thrown
    /\ pc' = "terminate"
    /\ ret' = None
    /\ UNCHANGED <<action, expression_str, expression, result, out, stack>>

Next ==
    \/ Help \/ Quit \/ Operate \/ Unrecognized \/ Compile
    \/ ParseGroup \/ FoldGroup \/ ReturnFolded
    \/ ParseLeft \/ ParseRight \/ ReturnOperation \/ ReturnNumber
    \/ Unwind \/ PrintResult \/ Terminate

Spec == Init /\ [][Next]_vars

\* The steps the running program takes by itself, without reading a line.
Run ==
    \/ ParseGroup \/ FoldGroup \/ ReturnFolded
    \/ ParseLeft \/ ParseRight \/ ReturnOperation \/ ReturnNumber
    \/ Unwind \/ PrintResult \/ Terminate

(***************************************************************************)
(* Reference arithmetic of the properties, by operator character           *)
(***************************************************************************)
LitVal(c) == Num(DigitVal(c))

Calc(op, l, r) ==
    CASE op = "+" -> Add(l, r)
      [] op = "-" -> Sub(l, r)
      [] op = "*" -> Mul(l, r)
      [] op = "/" -> Div(l, r)
      [] op = "^" -> Pow(l, r)

Level(op) ==
    IF op \in {"+", "-", "SUM", "MIN"} THEN 1
    ELSE IF op \in {"*", "/", "MUL", "DIV"} THEN 2
    ELSE 3

\* compileExpression and resolve returned a value for the line / threw on it.
Answered(line) == expression_str = line /\ result # Null
Failed(line) == expression_str = line /\ pc = "terminate"
Done(line) == Answered(line) \/ Failed(line)
Settled == result # Null \/ pc = "terminate"

(***************************************************************************)
(* C1                                                                      *)
(***************************************************************************)
\* C1: a chain of two operators of one precedence level evaluates from the
\* left: a op1 b op2 c = (a op1 b) op2 c, for + - * / and for ^.
C1_LeftAssociative ==
    Settled => \A a \in {"8", "3", "2"}, b \in {"3", "2"}, o1 \in OpChars, o2 \in OpChars :
        LET line == Chain(<<a>>, o1, <<b>>, o2, <<"2">>)
        IN  (Level(o1) = Level(o2) /\ Done(line))
                => /\ Answered(line)
                   /\ result = Calc(o2, Calc(o1, LitVal(a), LitVal(b)), Num(2))

(***************************************************************************)
(* C2                                                                      *)
(***************************************************************************)
RECURSIVE Ordered(_)
Ordered(token) ==
    token.kind = "OperationToken" =>
        /\ \A child \in {token.a, token.b} :
              child.kind = "OperationToken"
                  => Level(child.operation) >= Level(token.operation)
        /\ Ordered(token.a)
        /\ Ordered(token.b)

\* C2: of two operators of different precedence levels the higher one is
\* applied first wherever it stands: a+b*c = a+(b*c), a*b+c = (a*b)+c;
\* "2+3*4" gives 14 and "(2+3)*4" gives 20; and in every compiled tree no
\* operator sits below an operator of a higher level.
C2_Precedence ==
    /\ Settled => \A a \in {"8", "3", "2"}, b \in {"3", "2"}, o1 \in OpChars, o2 \in OpChars :
        LET line == Chain(<<a>>, o1, <<b>>, o2, <<"2">>)
        IN  (Level(o1) # Level(o2) /\ Done(line))
                => /\ Answered(line)
                   /\ result =
                        IF Level(o2) > Level(o1)
                        THEN Calc(o1, LitVal(a), Calc(o2, LitVal(b), Num(2)))
                        ELSE Calc(o2, Calc(o1, LitVal(a), LitVal(b)), Num(2))
    /\ Done(<<"2", "+", "3", "*", "4">>) => result = Num(14)
    /\ Done(<<"(", "2", "+", "3", ")", "*", "4">>) => result = Num(20)
    /\ expression # Null => Ordered(expression)

C2_Witness ==
    \/ Answered(<<"2", "+", "3", "*", "4">>) /\ result = Num(14)
    \/ Answered(<<"8", "*", "3", "+", "2">>) /\ result = Num(26)

(***************************************************************************)
(* C3                                                                      *)
(***************************************************************************)
\* C3: a parenthesized group with an integer value acts as one operand of
\* that value, whatever operator stands before or after it and however deep
\* it is nested: a op (b o2 c) = a op v and (b o2 c) op a = v op a, where
\* v = b o2 c.
C3_GroupIsOperand ==
    Settled => \A a \in GroupLits, op \in OpChars, b \in GroupLits, o2 \in GroupOps,
       c \in GroupLits, k \in 1..MaxNest :
        LET v == Calc(o2, LitVal(b), LitVal(c))
            after  == GroupRight(a, op, b, o2, c, k)
            before == GroupLeft(b, o2, c, k, op, a)
        IN  /\ Done(after)
                => Answered(after) /\ result = Calc(op, LitVal(a), v)
            /\ Done(before)
                => Answered(before) /\ result = Calc(op, v, LitVal(a))

(***************************************************************************)
(* C4                                                                      *)
(***************************************************************************)
\* C4: a '-' that is the first character belongs to the literal after it:
\* "-a op b" is (-a) op b and "-a" is the negative number -a.
C4_LeadingMinus ==
    \A a \in SignLits :
        /\ Done(Signed1(a))
              => Answered(Signed1(a)) /\ result = Negate(LitVal(a))
        /\ \A op \in OpChars, b \in SignLits :
              Done(SignedLeft(a, op, b))
                  => /\ Answered(SignedLeft(a, op, b))
                     /\ result = Calc(op, Negate(LitVal(a)), LitVal(b))
                     /\ expression.a = NumberToken(Negate(LitVal(a)))

C4_Witness ==
    \/ Answered(<<"-", "5", "+", "3">>) /\ result = Num(-2)
    \/ Answered(<<"-", "5", "-", "3">>) /\ result = Num(-8)

(***************************************************************************)
(* C5                                                                      *)
(***************************************************************************)
C5_Malformed ==
    {<<"2", "+">>, <<"+", "2">>, <<>>,
     <<"a", "b", "c">>, <<"P", "I">>, <<"2", "a", "b", "c">>}

\* C5: an input with an empty operand, or with an operand that is not "pi",
\* "e" or a complete decimal literal, fails and returns no value.
C5_MalformedOperandFails ==
    \A line \in C5_Malformed : Done(line) => Failed(line)

(***************************************************************************)
(* C6                                                                      *)
(***************************************************************************)
C6_Unbalanced ==
    {<<"(", "1", "+", "2">>, <<"(", "(", "1", "+", "2", ")">>,
     <<"1", "+", "2", ")">>, <<"(", "1", "+", "2", ")", ")">>}

\* C6: an input with unbalanced parentheses, an unmatched '(' or an
\* unmatched ')', fails and returns no value.
C6_UnbalancedFails ==
    \A line \in C6_Unbalanced : Done(line) => Failed(line)

(***************************************************************************)
(* C7                                                                      *)
(***************************************************************************)
\* C7: the process ends only because the command line "q" was read, never
\* because of a malformed expression.
C7_OnlyQuitEnds ==
    pc \in {"exit", "terminate"} => (pc = "exit" /\ action = <<"q">>)

(***************************************************************************)
(* C8                                                                      *)
(***************************************************************************)
\* C8: in "a*-b", "a/-b" and "a^-b" the '-' is the split point (a binary
\* subtraction at level 1) and compilation fails; "a+-b" and "a--b" give
\* a+(-b) and a-(-b).
C8_MinusAfterOperator ==
    \A a \in SignLits, b \in SignLits :
        /\ \A op \in {"*", "/", "^"} :
              LET line == SignedRight(a, op, b)
              IN  /\ Done(line) => Failed(line)
                  /\ \A k \in 1..Len(stack) :
                        (stack[k].expression = line /\ stack[k].at # "enter")
                            => stack[k].operation = "MIN" /\ stack[k].i = 2
        /\ \A op \in {"+", "-"} :
              LET line == SignedRight(a, op, b)
              IN  Done(line)
                    => /\ Answered(line)
                       /\ result = Calc(op, LitVal(a), Negate(LitVal(b)))

C8_Witness ==
    \/ Failed(<<"3", "*", "-", "2">>)
    \/ Answered(<<"3", "-", "-", "2">>) /\ result = Num(5)

(***************************************************************************)
(* C9                                                                      *)
(***************************************************************************)
Parens(e) == Count(e, 1, Len(e), "(") + Count(e, 1, Len(e), ")")

\* What the call in frame k was given, against what its caller was given.
Decreases(k) ==
    LET caller == stack[k - 1]
        callee == stack[k].expression
    IN  CASE caller.at = "subExpression" ->
                /\ Len(callee) < Len(caller.expression)
                /\ Parens(callee) < Parens(caller.expression)
          [] caller.at = "newExpression" ->
                Parens(callee) < Parens(caller.expression)
          [] caller.at \in {"left", "right"} ->
                Len(callee) < Len(caller.expression)
          [] OTHER -> FALSE

C9_Bounded ==
    /\ \A k \in 2..Len(stack) : Decreases(k)
    /\ pc = "compileExpression"
          => Len(stack) <= Len(RemoveSpaces(expression_str)) + 1

\* How far a call is from its return: two recursive calls to make, one, none.
Remaining(frame) ==
    CASE frame.at = "enter" -> 2
      [] frame.at \in {"subExpression", "left"} -> 1
      [] OTHER -> 0

\* The calls in progress t come before s in the lexicographic order of the
\* stacks, outermost call first, in which a stack is above its prefixes.
Smaller(t, s) ==
    \E k \in 1..Len(s) :
        /\ Len(t) >= k - 1
        /\ \A m \in 1..(k - 1) : t[m] = s[m]
        /\ \/ Len(t) = k - 1
           \/ /\ Len(t) >= k
              /\ t[k].expression = s[k].expression
              /\ Remaining(t[k]) < Remaining(s[k])

\* C9: every recursive parseToken call gets a string with fewer parentheses
\* (substitution) or a shorter string (split), the nesting of the calls is
\* bounded by the length of the stripped input, and every step of the
\* compilation moves the calls in progress down a well-founded order, so
\* that compileExpression ends by returning or throwing.
C9_Terminates ==
    /\ []C9_Bounded
    /\ [][Run => (pc' # "compileExpression" \/ Smaller(stack', stack))]_vars

\* the substituted text is longer than the group it replaced
C9_Witness ==
    \E k \in 2..Len(stack) :
        /\ stack[k - 1].at = "newExpression"
        /\ Len(stack[k].expression) > Len(stack[k - 1].expression)

(***************************************************************************)
(* C10                                                                     *)
(***************************************************************************)
RECURSIVE WellFormed(_)
WellFormed(token) ==
    IF token.kind = "OperationToken"
    THEN /\ token.operation \in Operation \ {"NONE"}
         /\ token.a # Null
         /\ token.b # Null
         /\ WellFormed(token.a)
         /\ WellFormed(token.b)
    ELSE /\ token.kind = "NumberToken"
         /\ DOMAIN token = {"kind", "value"}

\* C10: in every tree the parser returns, an operator node has a kind other
\* than NONE and two children that are complete trees, and every leaf is a
\* number node.
C10_TreeWellFormed ==
    /\ expression # Null => WellFormed(expression)
    /\ ret.kind = "token" => WellFormed(ret.token)
    /\ \A k \in 1..Len(stack) :
          stack[k].at = "right"
              => WellFormed(stack[k].a) /\ stack[k].operation # "NONE"

C10_Witness ==
    /\ expression # Null
    /\ expression.kind = "OperationToken"
    /\ expression.b.kind = "OperationToken"
    /\ expression.b.a.kind = "NumberToken"

=============================================================================
